---- MODULE Spec2Model ----
(***************************************************************************)
(* Drive2Sku: the relay of vendor JSON files from a Drive folder to        *)
(* SKUVault (src/main.go).  The goroutines of main.go are modelled as      *)
(* processes: main (the select loop with deleteFiles inlined), readDrive,  *)
(* proctor, one chunkToPayloads per listed file and one writeVault per     *)
(* dequeued payload.  Unbuffered channels (fCh, delFCh, endCh) are         *)
(* rendezvous between a blocked sender and a receiver; plBufCh is a        *)
(* bounded FIFO; throttleCh is the ticker's one-slot channel.  The         *)
(* last-payload variant of the program (src/unnamed/part_003), in which    *)
(* readDrive chunks one file at a time and writeVault deletes the file,    *)
(* is modelled by the definitions whose names start with Last; the loops   *)
(* of write2Sku in the sequential revision (src/quickstart.go) by those    *)
(* whose names start with Write2Sku.                                       *)
(***************************************************************************)
EXTENDS Integers, Sequences, FiniteSets, TLC

\* ---------------------------------------------------------------- constants

\* const throttle (milliseconds between two ticks)
throttle == 6300

\* plCap := 100, the capacity of pl.Items
plCap == 100

\* plBufCh = make(chan Payload, 10)
plBufCap == 10

\* "10 payloads every minute to SKUVault"
maxBatchesPerMinute == 10

\* one minute, in milliseconds ("ten 100-object payloads every minute")
minuteMs == 60000

\* ------------------------------------------------------------------- bounds

\* files returned by one listing
MaxFiles == 2

\* ticks the ticker produces in a timed run
MaxClock == 11

\* groups (outer map entries) of a document given to the chunking function
MaxGroups == 2

VARIABLES
    fls,         \* the listing: a sequence of files, each the group sizes of its JSON
    exit,        \* "run" | "returned" (main returned) | "fatal" (log.Fatalf or panic)
    failure,     \* <<call, file>>: the call that failed, for which file ("", 0: none)
    decodeErr,   \* the files for which Decode returned an error (which is dropped)
    mainPc,      \* position of main: "select" | "recv" | "deleteFiles" | "delete"
    delN,        \* deleteFiles: n
    delI,        \* deleteFiles: i
    delF,        \* deleteFiles: f, the file received from fCh (0: none)
    rdPc,        \* position of readDrive
    rdI,         \* readDrive: files already handed to a chunker
    prPc,        \* position of proctor: "wait" | "send" | "done"
    chk,         \* per file, the chunkToPayloads goroutine: [pc, n, k]
    wg,          \* the WaitGroup counter
    plBufCh,     \* the buffered payload channel: a sequence of <<file, index>>
    throttleCh,  \* ticks buffered in the ticker's channel (0 or 1)
    inflight,    \* per file, writeVault goroutines that have not returned
    uploaded,    \* per file, writeVault executions that ended with status < 400
    rejected,    \* per file, writeVault executions that ended with status >= 400
    deleted,     \* per file, delete requests issued to the Drive
    clock,       \* ticks the ticker has produced (timed runs)
    sendLog,     \* clock values at which main started a writeVault, last minute only
    ticks,       \* ticks main has received from throttleCh
    delRun,      \* last-payload variant: files a writeVault is running deleteFile on
    cVsd,        \* one chunkToPayloads run: vsd, the decoded document
    cG,          \* one chunkToPayloads run: groups of vsd already visited
    cPl,         \* one chunkToPayloads run: pl.Items
    cOut,        \* one chunkToPayloads run: the payloads forwarded so far
    cPc,         \* one chunkToPayloads run: "loop" | "done"
    cI,          \* one run of the last-payload variant: i, the cursor
    slVsd,       \* the slices of one chunkToPayloads run: vsd, the decoded document
    slG,         \* the slices of one run: groups of vsd already visited
    slI,         \* the slices of one run: records of the current group already visited
    heap,        \* the slices of one run: the backing arrays made so far
    slPl,        \* the slices of one run: the slice header pl.Items, [arr, len]
    slSent,      \* the slices of one run: the payloads sent on plBufCh, oldest first
    slPc         \* the slices of one run: "loop" | "done"

vars ==
    <<fls, exit, failure, decodeErr, mainPc, delN, delI, delF, rdPc, rdI, prPc,
      chk, wg, plBufCh,
      throttleCh, inflight, uploaded, rejected, deleted, clock, sendLog, ticks,
      delRun, cVsd, cG, cPl, cOut, cPc, cI, slVsd, slG, slI, heap, slPl, slSent, slPc>>

pipeVars ==
    <<fls, exit, failure, decodeErr, mainPc, delN, delI, delF, rdPc, rdI, prPc,
      chk, wg, plBufCh,
      throttleCh, inflight, uploaded, rejected, deleted, clock, sendLog, ticks,
      delRun>>

chunkVars ==
    <<cVsd, cG, cPl, cOut, cPc, cI>>

sliceVars ==
    <<slVsd, slG, slI, heap, slPl, slSent, slPc>>

\* ----------------------------------------------------------- chunkToPayloads

\* One group of the decoded JSON: n items, item i of group g is <<g, i>>.
MkGroup(g, n) ==
    [i \in 1..n |-> <<g, i>>]

\* map[string]map[string]Item in the order the range loops visit it.
MkDoc(sizes) ==
    [g \in 1..Len(sizes) |-> MkGroup(g, sizes[g])]

\* the smaller of two numbers
Min(a, b) ==
    IF a < b THEN a ELSE b

RECURSIVE InnerLoop(_, _, _)
\* for _, iv := range v: when pl is full (len == cap) forward it and start an
\* empty one, then append iv.  The iterations between two forwards only append,
\* so they are taken together: the next Min(room, Len(v)) items go into pl.
InnerLoop(v, pl, out) ==
    IF v = <<>>
    THEN [pl |-> pl, out |-> out]
    ELSE IF Len(pl) = plCap
         THEN InnerLoop(v, <<>>, Append(out, pl))
         ELSE LET take == Min(plCap - Len(pl), Len(v))
              IN  InnerLoop(SubSeq(v, take + 1, Len(v)),
                            pl \o SubSeq(v, 1, take), out)

\* GroupStep with the forward after the inner loop left out
GroupStepNoPartial(v, pl, out) ==
    LET r == InnerLoop(v, pl, out)
    IN  [pl  |-> r.pl,
         out |-> r.out]

\* One iteration of for _, v := range vsd: the inner loop over v, then pl is
\* forwarded when it is not empty; pl is not reset after this forward.
GroupStep(v, pl, out) ==
    LET r == InnerLoop(v, pl, out)
    IN  [pl  |-> r.pl,
         out |-> IF Len(r.pl) # 0 THEN Append(r.out, r.pl) ELSE r.out]

RECURSIVE OuterLoop(_, _, _)
\* for _, v := range vsd
OuterLoop(vsd, pl, out) ==
    IF vsd = <<>>
    THEN out
    ELSE LET r == GroupStep(Head(vsd), pl, out)
         IN  OuterLoop(Tail(vsd), r.pl, r.out)

\* The payloads chunkToPayloads puts on plBufCh for a decoded document, in order.
ChunkToPayloads(vsd) ==
    OuterLoop(vsd, <<>>, <<>>)

\* ------------------------- chunkToPayloads of the last-payload variant

RECURSIVE LastInnerLoop(_, _, _, _, _)
\* for _, iv := range v of the variant: i++, then when pl is full it is
\* forwarded, on plBufCh when i == len(v) and on lastPlCh otherwise, and an
\* empty one is started; then iv is appended.  i counts the records visited
\* before the one at the head of v, so the test reads i + 1; n is len(v) of
\* the whole group.  The iterations between two forwards are taken together.
LastInnerLoop(v, pl, out, i, n) ==
    IF v = <<>>
    THEN [pl |-> pl, out |-> out, i |-> i]
    ELSE IF Len(pl) = plCap
         THEN LastInnerLoop(v, <<>>,
                            Append(out, [ch    |-> IF i + 1 = n THEN "plBufCh"
                                                                ELSE "lastPlCh",
                                         items |-> pl]),
                            i, n)
         ELSE LET take == Min(plCap - Len(pl), Len(v))
              IN  LastInnerLoop(SubSeq(v, take + 1, Len(v)),
                                pl \o SubSeq(v, 1, take), out, i + take, n)

\* One iteration of for _, v := range vsd of the variant: the inner loop over
\* v, then pl is sent on lastPlCh when it is not empty; pl is not reset after
\* this send and i is not reset between groups.
LastGroupStep(v, pl, out, i) ==
    LET r == LastInnerLoop(v, pl, out, i, Len(v))
    IN  [pl  |-> r.pl,
         i   |-> r.i,
         out |-> IF Len(r.pl) # 0
                 THEN Append(r.out, [ch |-> "lastPlCh", items |-> r.pl])
                 ELSE r.out]

RECURSIVE LastOuterLoop(_, _, _, _)
\* for _, v := range vsd of the variant
LastOuterLoop(vsd, pl, out, i) ==
    IF vsd = <<>>
    THEN out
    ELSE LET r == LastGroupStep(Head(vsd), pl, out, i)
         IN  LastOuterLoop(Tail(vsd), r.pl, r.out, r.i)

\* The payloads the variant's chunkToPayloads sends for a decoded document, in
\* order, each with the channel it is sent on.
LastChunkToPayloads(vsd) ==
    LastOuterLoop(vsd, <<>>, <<>>, 0)

\* --------------------- write2Sku of the sequential revision (quickstart.go)

RECURSIVE Write2SkuInner(_, _, _)
\* for ik, iv := range v of write2Sku: when pyld.Items is full (len == cap)
\* it is passed to sku.Request and a new empty slice is made, then iv is
\* appended.  The iterations between two requests only append, so they are
\* taken together.  out is the payloads passed to sku.Request so far.
Write2SkuInner(v, pyld, out) ==
    IF v = <<>>
    THEN [pyld |-> pyld, out |-> out]
    ELSE IF Len(pyld) = plCap
         THEN Write2SkuInner(v, <<>>, Append(out, pyld))
         ELSE LET take == Min(plCap - Len(pyld), Len(v))
              IN  Write2SkuInner(SubSeq(v, take + 1, Len(v)),
                                 pyld \o SubSeq(v, 1, take), out)

\* ------------------------------------------------------------------- inputs

\* Group sizes of the documents a listing returns: no record, one record,
\* one more than a full payload.
DocShapes ==
    {<<>>, <<1>>, <<plCap + 1>>}

RECURSIVE SeqsUpTo(_, _)
\* the sequences over S of length at most n
SeqsUpTo(S, n) ==
    IF n = 0
    THEN {<<>>}
    ELSE LET shorter == SeqsUpTo(S, n - 1)
         IN  shorter \cup {Append(s, x) : s \in shorter, x \in S}

Listings ==
    SeqsUpTo(DocShapes, MaxFiles)

\* A file whose chunker forwards more payloads than plBufCh holds.
LongDoc ==
    <<plBufCap * plCap + 1>>

Files ==
    1..Len(fls)

\* Group sizes given to one chunkToPayloads run: around 0, around plCap, and
\* two full payloads and a half.
GroupSizes ==
    {0, 1, 2, plCap - 1, plCap, plCap + 1, 2 * plCap + (plCap \div 2)}

ChunkInputs ==
    {MkDoc(sizes) : sizes \in SeqsUpTo(GroupSizes, MaxGroups)}

\* --------------------------------------------------------------------- Init

PipeInit(listing) ==
    /\ fls = listing
    /\ exit = "run"
    /\ failure = <<"", 0>>
    /\ decodeErr = {}
    /\ mainPc = "select"
    /\ delN = 0
    /\ delI = 0
    /\ delF = 0
    /\ rdPc = "list"
    /\ rdI = 0
    /\ prPc = "wait"
    /\ chk = [d \in 1..Len(listing) |-> [pc |-> "idle", n |-> 0, k |-> 0]]
    /\ wg = 1
    /\ plBufCh = <<>>
    /\ throttleCh = 0
    /\ inflight = [d \in 1..Len(listing) |-> 0]
    /\ uploaded = [d \in 1..Len(listing) |-> 0]
    /\ rejected = [d \in 1..Len(listing) |-> 0]
    /\ deleted = [d \in 1..Len(listing) |-> 0]
    /\ clock = 0
    /\ sendLog = <<>>
    /\ ticks = 0
    /\ delRun = {}

ChunkIdle ==
    /\ cVsd = <<>>
    /\ cG = 0
    /\ cPl = <<>>
    /\ cOut = <<>>
    /\ cPc = "done"
    /\ cI = 0

SliceIdle ==
    /\ slVsd = <<>>
    /\ slG = 0
    /\ slI = 0
    /\ heap = <<>>
    /\ slPl = [arr |-> 0, len |-> 0]
    /\ slSent = <<>>
    /\ slPc = "done"

Init ==
    /\ \E l \in Listings : PipeInit(l)
    /\ ChunkIdle
    /\ SliceIdle

\* ---------------------------------------------------------------- readDrive

\* drv.Files.List()...Do() returns the files
ReadDriveList ==
    /\ exit = "run"
    /\ rdPc = "list"
    /\ rdPc' = "spawn"
    /\ UNCHANGED <<fls, exit, failure, decodeErr, mainPc, delN, delI, delF, rdI, prPc, chk, wg,
                   plBufCh, throttleCh, inflight, uploaded, rejected, deleted,
                   clock, sendLog, ticks, delRun, chunkVars, sliceVars>>

\* ReadDriveListErr with the deferred wg.Done() left out
ReadDriveListErrNoDone ==
    /\ exit = "run"
    /\ rdPc = "list"
    /\ rdPc' = "done"
    /\ failure' = <<"list", 0>>
    /\ UNCHANGED <<fls, exit, decodeErr, mainPc, delN, delI, delF, rdI, prPc, chk, wg,
                   plBufCh, throttleCh, inflight, uploaded, rejected, deleted,
                   clock, sendLog, ticks, delRun, chunkVars, sliceVars>>

\* drv.Files.List()...Do() returns an error: readDrive returns (deferred wg.Done)
ReadDriveListErr ==
    /\ exit = "run"
    /\ rdPc = "list"
    /\ rdPc' = "done"
    /\ failure' = <<"list", 0>>
    /\ wg' = wg - 1
    /\ UNCHANGED <<fls, exit, decodeErr, mainPc, delN, delI, delF, rdI, prPc, chk,
                   plBufCh, throttleCh, inflight, uploaded, rejected, deleted,
                   clock, sendLog, ticks, delRun, chunkVars, sliceVars>>

\* ReadDriveSpawn with the wg.Add(1) left out
ReadDriveSpawnNoAdd ==
    /\ exit = "run"
    /\ rdPc = "spawn"
    /\ rdI < Len(fls)
    /\ rdI' = rdI + 1
    /\ chk' = [chk EXCEPT ![rdI + 1].pc = "download"]
    /\ UNCHANGED <<fls, exit, failure, decodeErr, mainPc, delN, delI, delF, rdPc, prPc, wg,
                   plBufCh, throttleCh, inflight, uploaded, rejected, deleted,
                   clock, sendLog, ticks, delRun, chunkVars, sliceVars>>

\* one iteration of the range loop: wg.Add(1); go chunkToPayloads(*f)
ReadDriveSpawn ==
    /\ exit = "run"
    /\ rdPc = "spawn"
    /\ rdI < Len(fls)
    /\ rdI' = rdI + 1
    /\ wg' = wg + 1
    /\ chk' = [chk EXCEPT ![rdI + 1].pc = "download"]
    /\ UNCHANGED <<fls, exit, failure, decodeErr, mainPc, delN, delI, delF, rdPc, prPc,
                   plBufCh, throttleCh, inflight, uploaded, rejected, deleted,
                   clock, sendLog, ticks, delRun, chunkVars, sliceVars>>

\* delFCh <- n, received by main's select (case n := <-delFCh), which enters
\* deleteFiles(n); with n = 0 the loop of deleteFiles ends at once.
ReadDriveSendN ==
    /\ exit = "run"
    /\ rdPc = "spawn"
    /\ rdI = Len(fls)
    /\ mainPc = "select"
    /\ rdPc' = "defer"
    /\ delN' = Len(fls)
    /\ delI' = 0
    /\ mainPc' = IF Len(fls) > 0 THEN "deleteFiles" ELSE "select"
    /\ UNCHANGED <<fls, exit, failure, decodeErr, delF, rdI, prPc, chk, wg,
                   plBufCh, throttleCh, inflight, uploaded, rejected, deleted,
                   clock, sendLog, ticks, delRun, chunkVars, sliceVars>>

\* the deferred wg.Done() of readDrive
ReadDriveDone ==
    /\ exit = "run"
    /\ rdPc = "defer"
    /\ rdPc' = "done"
    /\ wg' = wg - 1
    /\ UNCHANGED <<fls, exit, failure, decodeErr, mainPc, delN, delI, delF, rdI, prPc, chk,
                   plBufCh, throttleCh, inflight, uploaded, rejected, deleted,
                   clock, sendLog, ticks, delRun, chunkVars, sliceVars>>

\* ---------------------------------------------------------- chunkToPayloads

\* Download succeeds and the body is decoded: the goroutine now holds the
\* payloads its loops will forward (n of them), none forwarded yet.
ChunkDownload(d) ==
    /\ exit = "run"
    /\ chk[d].pc = "download"
    /\ chk' = [chk EXCEPT ![d] = [pc |-> "loop",
                                  n |-> Len(ChunkToPayloads(MkDoc(fls[d]))),
                                  k |-> 0]]
    /\ UNCHANGED <<fls, exit, failure, decodeErr, mainPc, delN, delI, delF, rdPc, rdI, prPc, wg,
                   plBufCh, throttleCh, inflight, uploaded, rejected, deleted,
                   clock, sendLog, ticks, delRun, chunkVars, sliceVars>>

\* Download succeeds and Decode returns an error, which chunkToPayloads does
\* not look at.  vsd holds what the decoder stored: nothing when the body is
\* not valid JSON, the records it could store when a value has the wrong type
\* (fls[d] then stands for those).  The loops and fCh <- f follow as ever.
ChunkDecodeErr(d) ==
    /\ exit = "run"
    /\ chk[d].pc = "download"
    /\ decodeErr' = decodeErr \cup {d}
    /\ \E stored \in {<<>>, fls[d]} :
          chk' = [chk EXCEPT ![d] = [pc |-> "loop",
                                     n |-> Len(ChunkToPayloads(MkDoc(stored))),
                                     k |-> 0]]
    /\ UNCHANGED <<fls, exit, failure, mainPc, delN, delI, delF, rdPc, rdI, prPc,
                   wg, plBufCh, throttleCh, inflight, uploaded, rejected,
                   deleted, clock, sendLog, ticks, delRun, chunkVars, sliceVars>>

\* Download fails: log.Fatalf ends the process
ChunkDownloadFail(d) ==
    /\ exit = "run"
    /\ chk[d].pc = "download"
    /\ exit' = "fatal"
    /\ failure' = <<"download", d>>
    /\ UNCHANGED <<fls, decodeErr, mainPc, delN, delI, delF, rdPc, rdI, prPc, chk, wg,
                   plBufCh, throttleCh, inflight, uploaded, rejected, deleted,
                   clock, sendLog, ticks, delRun, chunkVars, sliceVars>>

\* ChunkAdd with the wg.Add(1) left out
ChunkAddNoCount(d) ==
    /\ exit = "run"
    /\ chk[d].pc = "loop"
    /\ chk[d].k < chk[d].n
    /\ chk' = [chk EXCEPT ![d].pc = "send"]
    /\ UNCHANGED <<fls, exit, failure, decodeErr, mainPc, delN, delI, delF, rdPc, rdI, prPc, wg,
                   plBufCh, throttleCh, inflight, uploaded, rejected, deleted,
                   clock, sendLog, ticks, delRun, chunkVars, sliceVars>>

\* wg.Add(1) before a payload is forwarded
ChunkAdd(d) ==
    /\ exit = "run"
    /\ chk[d].pc = "loop"
    /\ chk[d].k < chk[d].n
    /\ wg' = wg + 1
    /\ chk' = [chk EXCEPT ![d].pc = "send"]
    /\ UNCHANGED <<fls, exit, failure, decodeErr, mainPc, delN, delI, delF, rdPc, rdI, prPc,
                   plBufCh, throttleCh, inflight, uploaded, rejected, deleted,
                   clock, sendLog, ticks, delRun, chunkVars, sliceVars>>

\* ChunkSend with the send going through when the channel is full
ChunkSendNoBlock(d) ==
    /\ exit = "run"
    /\ chk[d].pc = "send"
    /\ plBufCh' = Append(plBufCh, <<d, chk[d].k + 1>>)
    /\ chk' = [chk EXCEPT ![d].pc = "loop", ![d].k = chk[d].k + 1]
    /\ UNCHANGED <<fls, exit, failure, decodeErr, mainPc, delN, delI, delF, rdPc, rdI, prPc, wg,
                   throttleCh, inflight, uploaded, rejected, deleted,
                   clock, sendLog, ticks, delRun, chunkVars, sliceVars>>

\* plBufCh <- pl: blocks while the channel holds plBufCap payloads
ChunkSend(d) ==
    /\ exit = "run"
    /\ chk[d].pc = "send"
    /\ Len(plBufCh) < plBufCap
    /\ plBufCh' = Append(plBufCh, <<d, chk[d].k + 1>>)
    /\ chk' = [chk EXCEPT ![d].pc = "loop", ![d].k = chk[d].k + 1]
    /\ UNCHANGED <<fls, exit, failure, decodeErr, mainPc, delN, delI, delF, rdPc, rdI, prPc, wg,
                   throttleCh, inflight, uploaded, rejected, deleted,
                   clock, sendLog, ticks, delRun, chunkVars, sliceVars>>

\* ChunkSendFile with the chunker staying in front of fCh <- f, so that it
\* hands its file over again
ChunkSendFileAgain(d) ==
    /\ exit = "run"
    /\ chk[d].pc = "loop"
    /\ chk[d].k = chk[d].n
    /\ mainPc = "deleteFiles"
    /\ delF' = d
    /\ mainPc' = "delete"
    /\ UNCHANGED <<fls, exit, failure, decodeErr, delN, delI, rdPc, rdI, prPc, chk, wg,
                   plBufCh, throttleCh, inflight, uploaded, rejected, deleted,
                   clock, sendLog, ticks, delRun, chunkVars, sliceVars>>

\* ChunkSendFile with the chunker holding its file back until SKUVault has
\* accepted a payload of it
ChunkSendFileAfterUpload(d) ==
    /\ exit = "run"
    /\ chk[d].pc = "loop"
    /\ chk[d].k = chk[d].n
    /\ uploaded[d] > 0
    /\ mainPc = "deleteFiles"
    /\ delF' = d
    /\ mainPc' = "delete"
    /\ chk' = [chk EXCEPT ![d].pc = "defer"]
    /\ UNCHANGED <<fls, exit, failure, decodeErr, delN, delI, rdPc, rdI, prPc, wg,
                   plBufCh, throttleCh, inflight, uploaded, rejected, deleted,
                   clock, sendLog, ticks, delRun, chunkVars, sliceVars>>

\* fCh <- f after the loops, received by f := <-fCh in deleteFiles
ChunkSendFile(d) ==
    /\ exit = "run"
    /\ chk[d].pc = "loop"
    /\ chk[d].k = chk[d].n
    /\ mainPc = "deleteFiles"
    /\ delF' = d
    /\ mainPc' = "delete"
    /\ chk' = [chk EXCEPT ![d].pc = "defer"]
    /\ UNCHANGED <<fls, exit, failure, decodeErr, delN, delI, rdPc, rdI, prPc, wg,
                   plBufCh, throttleCh, inflight, uploaded, rejected, deleted,
                   clock, sendLog, ticks, delRun, chunkVars, sliceVars>>

\* the deferred wg.Done() of chunkToPayloads
ChunkDone(d) ==
    /\ exit = "run"
    /\ chk[d].pc = "defer"
    /\ chk' = [chk EXCEPT ![d].pc = "done"]
    /\ wg' = wg - 1
    /\ UNCHANGED <<fls, exit, failure, decodeErr, mainPc, delN, delI, delF, rdPc, rdI, prPc,
                   plBufCh, throttleCh, inflight, uploaded, rejected, deleted,
                   clock, sendLog, ticks, delRun, chunkVars, sliceVars>>

\* --------------------------------------------------------------- deleteFiles

\* DeleteFile with the loop going on without the delete request
DeleteFileSkip ==
    /\ exit = "run"
    /\ mainPc = "delete"
    /\ delI' = delI + 1
    /\ delF' = 0
    /\ mainPc' = IF delI + 1 < delN THEN "deleteFiles" ELSE "select"
    /\ UNCHANGED <<fls, exit, failure, decodeErr, delN, rdPc, rdI, prPc, chk, wg,
                   plBufCh, throttleCh, inflight, uploaded, rejected, deleted,
                   clock, sendLog, ticks, delRun, chunkVars, sliceVars>>

\* drv.Files.Delete(f.Id).Do() succeeds; i++ and the loop test
DeleteFile ==
    /\ exit = "run"
    /\ mainPc = "delete"
    /\ deleted' = [deleted EXCEPT ![delF] = deleted[delF] + 1]
    /\ delI' = delI + 1
    /\ delF' = 0
    /\ mainPc' = IF delI + 1 < delN THEN "deleteFiles" ELSE "select"
    /\ UNCHANGED <<fls, exit, failure, decodeErr, delN, rdPc, rdI, prPc, chk, wg,
                   plBufCh, throttleCh, inflight, uploaded, rejected,
                   clock, sendLog, ticks, delRun, chunkVars, sliceVars>>

\* drv.Files.Delete(f.Id).Do() fails: log.Fatalf ends the process
DeleteFileFail ==
    /\ exit = "run"
    /\ mainPc = "delete"
    /\ deleted' = [deleted EXCEPT ![delF] = deleted[delF] + 1]
    /\ exit' = "fatal"
    /\ failure' = <<"delete", delF>>
    /\ UNCHANGED <<fls, decodeErr, mainPc, delN, delI, delF, rdPc, rdI, prPc, chk, wg,
                   plBufCh, throttleCh, inflight, uploaded, rejected,
                   clock, sendLog, ticks, delRun, chunkVars, sliceVars>>

\* --------------------------------------------------------------------- main

\* the ticker puts a tick in its one-slot channel (a tick is dropped when full)
Tick ==
    /\ exit = "run"
    /\ throttleCh = 0
    /\ throttleCh' = 1
    /\ UNCHANGED <<fls, exit, failure, decodeErr, mainPc, delN, delI, delF, rdPc, rdI, prPc, chk, wg,
                   plBufCh, inflight, uploaded, rejected, deleted,
                   clock, sendLog, ticks, delRun, chunkVars, sliceVars>>

\* case <-throttleCh: main goes on to evaluate <-plBufCh
MainTick ==
    /\ exit = "run"
    /\ mainPc = "select"
    /\ throttleCh = 1
    /\ throttleCh' = 0
    /\ ticks' = ticks + 1
    /\ mainPc' = "recv"
    /\ UNCHANGED <<fls, exit, failure, decodeErr, delN, delI, delF, rdPc, rdI, prPc, chk, wg,
                   plBufCh, inflight, uploaded, rejected, deleted,
                   clock, sendLog, delRun, chunkVars, sliceVars>>

\* MainRecv with the payload read but left in plBufCh
MainRecvKeep ==
    /\ exit = "run"
    /\ mainPc = "recv"
    /\ plBufCh # <<>>
    /\ inflight' = [inflight EXCEPT ![Head(plBufCh)[1]] = @ + 1]
    /\ sendLog' = Append(sendLog, clock)
    /\ mainPc' = "select"
    /\ UNCHANGED <<fls, exit, failure, decodeErr, delN, delI, delF, rdPc, rdI, prPc, chk, wg,
                   plBufCh, throttleCh, uploaded, rejected, deleted, clock,
                   ticks, delRun, chunkVars, sliceVars>>

\* MainRecv with the newest payload of plBufCh received instead of the oldest
MainRecvLast ==
    /\ exit = "run"
    /\ mainPc = "recv"
    /\ plBufCh # <<>>
    /\ plBufCh' = SubSeq(plBufCh, 1, Len(plBufCh) - 1)
    /\ inflight' = [inflight EXCEPT ![plBufCh[Len(plBufCh)][1]] = @ + 1]
    /\ sendLog' = Append(sendLog, clock)
    /\ mainPc' = "select"
    /\ UNCHANGED <<fls, exit, failure, decodeErr, delN, delI, delF, rdPc, rdI, prPc, chk, wg,
                   throttleCh, uploaded, rejected, deleted, clock, ticks, delRun, chunkVars, sliceVars>>

\* MainRecv with main going on to another receive without a tick
MainRecvAgain ==
    /\ exit = "run"
    /\ mainPc = "recv"
    /\ plBufCh # <<>>
    /\ plBufCh' = Tail(plBufCh)
    /\ inflight' = [inflight EXCEPT ![Head(plBufCh)[1]] = @ + 1]
    /\ sendLog' = Append(sendLog, clock)
    /\ mainPc' = "recv"
    /\ UNCHANGED <<fls, exit, failure, decodeErr, delN, delI, delF, rdPc, rdI, prPc, chk, wg,
                   throttleCh, uploaded, rejected, deleted, clock, ticks, delRun, chunkVars, sliceVars>>

\* go writeVault(<-plBufCh): main receives the oldest payload (blocking while
\* the channel is empty) and starts a writeVault goroutine with it
MainRecv ==
    /\ exit = "run"
    /\ mainPc = "recv"
    /\ plBufCh # <<>>
    /\ plBufCh' = Tail(plBufCh)
    /\ inflight' = [inflight EXCEPT ![Head(plBufCh)[1]] = @ + 1]
    /\ sendLog' = Append(sendLog, clock)
    /\ mainPc' = "select"
    /\ UNCHANGED <<fls, exit, failure, decodeErr, delN, delI, delF, rdPc, rdI, prPc, chk, wg,
                   throttleCh, uploaded, rejected, deleted, clock, ticks, delRun, chunkVars, sliceVars>>

\* case <-endCh: main returns and the process ends
MainEnd ==
    /\ exit = "run"
    /\ mainPc = "select"
    /\ prPc = "send"
    /\ prPc' = "done"
    /\ exit' = "returned"
    /\ UNCHANGED <<fls, failure, decodeErr, mainPc, delN, delI, delF, rdPc, rdI, chk, wg,
                   plBufCh, throttleCh, inflight, uploaded, rejected, deleted,
                   clock, sendLog, ticks, delRun, chunkVars, sliceVars>>

\* ------------------------------------------------------------------ proctor

\* wg.Wait() returns when the counter is zero; proctor then blocks in endCh <- true
ProctorWait ==
    /\ exit = "run"
    /\ prPc = "wait"
    /\ wg = 0
    /\ prPc' = "send"
    /\ UNCHANGED <<fls, exit, failure, decodeErr, mainPc, delN, delI, delF, rdPc, rdI, chk, wg,
                   plBufCh, throttleCh, inflight, uploaded, rejected, deleted,
                   clock, sendLog, ticks, delRun, chunkVars, sliceVars>>

\* --------------------------------------------------------------- writeVault

\* vaultRequest answers with status < 400; echo; deferred wg.Done()
WriteVault(d) ==
    /\ exit = "run"
    /\ inflight[d] > 0
    /\ inflight' = [inflight EXCEPT ![d] = @ - 1]
    /\ uploaded' = [uploaded EXCEPT ![d] = @ + 1]
    /\ wg' = wg - 1
    /\ UNCHANGED <<fls, exit, failure, decodeErr, mainPc, delN, delI, delF, rdPc, rdI, prPc, chk,
                   plBufCh, throttleCh, rejected, deleted,
                   clock, sendLog, ticks, delRun, chunkVars, sliceVars>>

\* vaultRequest answers with status >= 400 and a body that lists an error:
\* responseStatus joins its messages; echo; deferred wg.Done()
WriteVaultRejected(d) ==
    /\ exit = "run"
    /\ inflight[d] > 0
    /\ inflight' = [inflight EXCEPT ![d] = @ - 1]
    /\ rejected' = [rejected EXCEPT ![d] = @ + 1]
    /\ wg' = wg - 1
    /\ UNCHANGED <<fls, exit, failure, decodeErr, mainPc, delN, delI, delF, rdPc, rdI, prPc, chk,
                   plBufCh, throttleCh, uploaded, deleted,
                   clock, sendLog, ticks, delRun, chunkVars, sliceVars>>

\* vaultRequest returns an error: log.Fatalf ends the process
WriteVaultFail(d) ==
    /\ exit = "run"
    /\ inflight[d] > 0
    /\ exit' = "fatal"
    /\ failure' = <<"vaultRequest", d>>
    /\ UNCHANGED <<fls, decodeErr, mainPc, delN, delI, delF, rdPc, rdI, prPc, chk, wg,
                   plBufCh, throttleCh, inflight, uploaded, rejected, deleted,
                   clock, sendLog, ticks, delRun, chunkVars, sliceVars>>

\* vaultRequest answers with status >= 400 and a body whose Errors list is empty:
\* body.Errors[0] in responseStatus panics and the process ends
WriteVaultPanic(d) ==
    /\ exit = "run"
    /\ inflight[d] > 0
    /\ exit' = "fatal"
    /\ failure' = <<"responseStatus", d>>
    /\ UNCHANGED <<fls, decodeErr, mainPc, delN, delI, delF, rdPc, rdI, prPc, chk, wg,
                   plBufCh, throttleCh, inflight, uploaded, rejected, deleted,
                   clock, sendLog, ticks, delRun, chunkVars, sliceVars>>

\* ------------------------------------------------------------- timed ticker

\* The ticker fires: one more period of throttle milliseconds has passed.  The
\* tick is buffered in the one-slot channel, or dropped when the slot is taken.
\* sendLog forgets the sends that are a minute old or older.  Time passes only
\* while main is blocked: main takes no time to receive from a ready channel.
TimedTick ==
    /\ exit = "run"
    /\ clock < MaxClock
    /\ ~(mainPc = "select" /\ throttleCh = 1)
    /\ ~(mainPc = "recv" /\ plBufCh # <<>>)
    /\ clock' = clock + 1
    /\ throttleCh' = 1
    /\ sendLog' = SelectSeq(sendLog,
                            LAMBDA t : (clock + 1 - t) * throttle < minuteMs)
    /\ UNCHANGED <<fls, exit, failure, decodeErr, mainPc, delN, delI, delF, rdPc, rdI, prPc, chk, wg,
                   plBufCh, inflight, uploaded, rejected, deleted, ticks, delRun, chunkVars, sliceVars>>

\* ------------------------------------------- one chunkToPayloads run, alone

\* one iteration of the outer range loop
ChunkGroup ==
    /\ cPc = "loop"
    /\ cG < Len(cVsd)
    /\ LET r == GroupStep(cVsd[cG + 1], cPl, cOut)
       IN  /\ cPl' = r.pl
           /\ cOut' = r.out
    /\ cG' = cG + 1
    /\ UNCHANGED <<cVsd, cPc, cI, pipeVars, sliceVars>>

\* the range loop is over: fCh <- f
ChunkEnd ==
    /\ cPc = "loop"
    /\ cG = Len(cVsd)
    /\ cPc' = "done"
    /\ UNCHANGED <<cVsd, cG, cPl, cOut, cI, pipeVars, sliceVars>>

\* ----------------- one chunkToPayloads run of the last-payload variant, alone

\* one iteration of the variant's outer range loop
LastChunkGroup ==
    /\ cPc = "loop"
    /\ cG < Len(cVsd)
    /\ LET r == LastGroupStep(cVsd[cG + 1], cPl, cOut, cI)
       IN  /\ cPl' = r.pl
           /\ cOut' = r.out
           /\ cI' = r.i
    /\ cG' = cG + 1
    /\ UNCHANGED <<cVsd, cPc, pipeVars, sliceVars>>

\* the variant's range loop is over: delFCh <- f
LastChunkEnd ==
    /\ cPc = "loop"
    /\ cG = Len(cVsd)
    /\ cPc' = "done"
    /\ UNCHANGED <<cVsd, cG, cPl, cOut, cI, pipeVars, sliceVars>>

\* ------------------------- one write2Sku run of the sequential revision

\* one iteration of for k, v := range vsd: nothing follows the inner loop
Write2SkuGroup ==
    /\ cPc = "loop"
    /\ cG < Len(cVsd)
    /\ LET r == Write2SkuInner(cVsd[cG + 1], cPl, cOut)
       IN  /\ cPl' = r.pyld
           /\ cOut' = r.out
    /\ cG' = cG + 1
    /\ UNCHANGED <<cVsd, cPc, cI, pipeVars, sliceVars>>

\* the range loop is over: the tokens are printed and write2Sku returns
Write2SkuEnd ==
    /\ cPc = "loop"
    /\ cG = Len(cVsd)
    /\ cPc' = "done"
    /\ UNCHANGED <<cVsd, cG, cPl, cOut, cI, pipeVars, sliceVars>>

\* ------------------------------- the slices of one chunkToPayloads run

\* the zero value of Item, which the slots of a new backing array hold
NoItem ==
    <<0, 0>>

\* make([]Item, 0, plCap): a backing array of plCap slots
MakeItems ==
    [i \in 1..plCap |-> NoItem]

\* What a reader of the slice header h gets: the first h.len slots of its
\* backing array, as they are now (struct2JSON(pl) in writeVault).
Read(h) ==
    SubSeq(heap[h.arr], 1, h.len)

\* plBufCh <- pl: the channel takes a copy of the slice header, not of the
\* backing array; was keeps the records the payload held at that moment.
Forwarded ==
    Append(slSent, [arr |-> slPl.arr, len |-> slPl.len, was |-> Read(slPl)])

\* SliceItem with the payload reset by pl.Items = pl.Items[:0], which keeps
\* the backing array
SliceItemReuse ==
    /\ slPc = "loop"
    /\ slG < Len(slVsd)
    /\ slI < Len(slVsd[slG + 1])
    /\ LET iv   == slVsd[slG + 1][slI + 1]
           full == slPl.len = plCap
           len  == IF full THEN 0 ELSE slPl.len
       IN  /\ slSent' = IF full THEN Forwarded ELSE slSent
           /\ heap' = [heap EXCEPT ![slPl.arr][len + 1] = iv]
           /\ slPl' = [arr |-> slPl.arr, len |-> len + 1]
    /\ slI' = slI + 1
    /\ UNCHANGED <<slVsd, slG, slPc, pipeVars, chunkVars>>

\* one iteration of for _, iv := range v: when len(pl.Items) == cap(pl.Items)
\* the payload is sent and pl gets a new backing array; then append writes iv
\* in the slot after the last one of pl.Items (len < cap: no reallocation)
SliceItem ==
    /\ slPc = "loop"
    /\ slG < Len(slVsd)
    /\ slI < Len(slVsd[slG + 1])
    /\ LET iv   == slVsd[slG + 1][slI + 1]
           full == slPl.len = plCap
           arr  == IF full THEN Len(heap) + 1 ELSE slPl.arr
           len  == IF full THEN 0 ELSE slPl.len
           hp   == IF full THEN Append(heap, MakeItems) ELSE heap
       IN  /\ slSent' = IF full THEN Forwarded ELSE slSent
           /\ heap' = [hp EXCEPT ![arr][len + 1] = iv]
           /\ slPl' = [arr |-> arr, len |-> len + 1]
    /\ slI' = slI + 1
    /\ UNCHANGED <<slVsd, slG, slPc, pipeVars, chunkVars>>

\* the inner loop is over: the payload is sent when it is not empty, and pl
\* keeps its slice header and backing array
SliceGroupEnd ==
    /\ slPc = "loop"
    /\ slG < Len(slVsd)
    /\ slI = Len(slVsd[slG + 1])
    /\ slSent' = IF slPl.len # 0 THEN Forwarded ELSE slSent
    /\ slG' = slG + 1
    /\ slI' = 0
    /\ UNCHANGED <<slVsd, heap, slPl, slPc, pipeVars, chunkVars>>

\* the outer loop is over: fCh <- f
SliceEnd ==
    /\ slPc = "loop"
    /\ slG = Len(slVsd)
    /\ slPc' = "done"
    /\ UNCHANGED <<slVsd, slG, slI, heap, slPl, slSent, pipeVars, chunkVars>>

\* ------------------------------------- the last-payload variant (part_003)

\* the channel the variant's chunker sends payload k of file d on
LastChannel(d, k) ==
    LastChunkToPayloads(MkDoc(fls[d]))[k].ch

\* the file whose chunkToPayloads is blocked in delFCh <- f, if any
AtDelFCh ==
    {f \in Files : chk[f].pc = "delFCh"}

\* select { case f := <-delFCh: deleteFile(f); default: } at the end of
\* writeVault: with a sender blocked on delFCh the file is received,
\* chunkToPayloads returns into the loop of readDrive and the goroutine goes
\* on into deleteFile(f); with none the goroutine returns (deferred wg.Done).
LastSelect ==
    IF AtDelFCh # {}
    THEN \E f \in AtDelFCh :
            /\ chk' = [chk EXCEPT ![f].pc = "done"]
            /\ rdI' = rdI + 1
            /\ delRun' = delRun \cup {f}
            /\ wg' = wg
    ELSE /\ wg' = wg - 1
         /\ UNCHANGED <<chk, rdI, delRun>>

\* the ticker puts a tick in its one-slot channel
LastTick ==
    /\ exit = "run"
    /\ throttleCh = 0
    /\ throttleCh' = 1
    /\ UNCHANGED <<fls, exit, failure, decodeErr, mainPc, delN, delI, delF, rdPc, rdI,
                   prPc, chk, wg, plBufCh, inflight, uploaded, rejected, deleted, clock,
                   sendLog, ticks, delRun, chunkVars, sliceVars>>

\* drv.Files.List()...Do() returns the files
LastReadDriveList ==
    /\ exit = "run"
    /\ rdPc = "list"
    /\ rdPc' = "chunk"
    /\ UNCHANGED <<fls, exit, failure, decodeErr, mainPc, delN, delI, delF, rdI, prPc,
                   chk, wg, plBufCh, throttleCh, inflight, uploaded, rejected, deleted,
                   clock, sendLog, ticks, delRun, chunkVars, sliceVars>>

\* drv.Files.List()...Do() returns an error: readDrive returns (deferred wg.Done)
LastReadDriveListErr ==
    /\ exit = "run"
    /\ rdPc = "list"
    /\ rdPc' = "done"
    /\ failure' = <<"list", 0>>
    /\ wg' = wg - 1
    /\ UNCHANGED <<fls, exit, decodeErr, mainPc, delN, delI, delF, rdI, prPc, chk,
                   plBufCh, throttleCh, inflight, uploaded, rejected, deleted, clock,
                   sendLog, ticks, delRun, chunkVars, sliceVars>>

\* for _, f := range fls.Files: chunkToPayloads(*f) is called, not spawned
LastReadDriveCall ==
    /\ exit = "run"
    /\ rdPc = "chunk"
    /\ rdI < Len(fls)
    /\ chk[rdI + 1].pc = "idle"
    /\ chk' = [chk EXCEPT ![rdI + 1].pc = "download"]
    /\ UNCHANGED <<fls, exit, failure, decodeErr, mainPc, delN, delI, delF, rdPc, rdI,
                   prPc, wg, plBufCh, throttleCh, inflight, uploaded, rejected, deleted,
                   clock, sendLog, ticks, delRun, chunkVars, sliceVars>>

\* the range loop is over (or no file was listed): readDrive returns
LastReadDriveDone ==
    /\ exit = "run"
    /\ rdPc = "chunk"
    /\ rdI = Len(fls)
    /\ rdPc' = "done"
    /\ wg' = wg - 1
    /\ UNCHANGED <<fls, exit, failure, decodeErr, mainPc, delN, delI, delF, rdI, prPc,
                   chk, plBufCh, throttleCh, inflight, uploaded, rejected, deleted,
                   clock, sendLog, ticks, delRun, chunkVars, sliceVars>>

\* Download and Decode succeed: the payloads of the file are known
LastChunkDownload(d) ==
    /\ exit = "run"
    /\ chk[d].pc = "download"
    /\ chk' = [chk EXCEPT ![d] = [pc |-> "loop",
                                   n |-> Len(LastChunkToPayloads(MkDoc(fls[d]))),
                                   k |-> 0]]
    /\ UNCHANGED <<fls, exit, failure, decodeErr, mainPc, delN, delI, delF, rdPc, rdI,
                   prPc, wg, plBufCh, throttleCh, inflight, uploaded, rejected, deleted,
                   clock, sendLog, ticks, delRun, chunkVars, sliceVars>>

\* Download fails: log.Fatalf ends the process
LastChunkDownloadFail(d) ==
    /\ exit = "run"
    /\ chk[d].pc = "download"
    /\ exit' = "fatal"
    /\ failure' = <<"download", d>>
    /\ UNCHANGED <<fls, decodeErr, mainPc, delN, delI, delF, rdPc, rdI, prPc, chk, wg,
                   plBufCh, throttleCh, inflight, uploaded, rejected, deleted, clock,
                   sendLog, ticks, delRun, chunkVars, sliceVars>>

\* the next payload is ready: wg.Add(1), before either send
LastChunkAdd(d) ==
    /\ exit = "run"
    /\ chk[d].pc = "loop"
    /\ chk[d].k < chk[d].n
    /\ wg' = wg + 1
    /\ chk' = [chk EXCEPT ![d].pc = "send"]
    /\ UNCHANGED <<fls, exit, failure, decodeErr, mainPc, delN, delI, delF, rdPc, rdI,
                   prPc, plBufCh, throttleCh, inflight, uploaded, rejected, deleted,
                   clock, sendLog, ticks, delRun, chunkVars, sliceVars>>

\* plBufCh <- pl: blocks while plBufCh holds plBufCap payloads
LastChunkSendBuf(d) ==
    /\ exit = "run"
    /\ chk[d].pc = "send"
    /\ LastChannel(d, chk[d].k + 1) = "plBufCh"
    /\ Len(plBufCh) < plBufCap
    /\ plBufCh' = Append(plBufCh, <<d, chk[d].k + 1>>)
    /\ chk' = [chk EXCEPT ![d].pc = "loop", ![d].k = @ + 1]
    /\ UNCHANGED <<fls, exit, failure, decodeErr, mainPc, delN, delI, delF, rdPc, rdI,
                   prPc, wg, throttleCh, inflight, uploaded, rejected, deleted, clock,
                   sendLog, ticks, delRun, chunkVars, sliceVars>>

\* the loops are over: chunkToPayloads blocks in delFCh <- f
LastChunkSendFile(d) ==
    /\ exit = "run"
    /\ chk[d].pc = "loop"
    /\ chk[d].k = chk[d].n
    /\ chk' = [chk EXCEPT ![d].pc = "delFCh"]
    /\ UNCHANGED <<fls, exit, failure, decodeErr, mainPc, delN, delI, delF, rdPc, rdI,
                   prPc, wg, plBufCh, throttleCh, inflight, uploaded, rejected, deleted,
                   clock, sendLog, ticks, delRun, chunkVars, sliceVars>>

\* case <-throttleCh: main reads len(plBufCh) and goes on to the receive
\* of the branch it chose
LastMainTick ==
    /\ exit = "run"
    /\ mainPc = "select"
    /\ throttleCh = 1
    /\ throttleCh' = 0
    /\ ticks' = ticks + 1
    /\ mainPc' = IF Len(plBufCh) > 0 THEN "recv" ELSE "recvLast"
    /\ UNCHANGED <<fls, exit, failure, decodeErr, delN, delI, delF, rdPc, rdI, prPc, chk,
                   wg, plBufCh, inflight, uploaded, rejected, deleted, clock, sendLog,
                   delRun, chunkVars, sliceVars>>

\* go writeVault(<-plBufCh)
LastMainRecv ==
    /\ exit = "run"
    /\ mainPc = "recv"
    /\ plBufCh # <<>>
    /\ plBufCh' = Tail(plBufCh)
    /\ inflight' = [inflight EXCEPT ![Head(plBufCh)[1]] = @ + 1]
    /\ mainPc' = "select"
    /\ UNCHANGED <<fls, exit, failure, decodeErr, delN, delI, delF, rdPc, rdI, prPc, chk,
                   wg, throttleCh, uploaded, rejected, deleted, clock, sendLog, ticks,
                   delRun, chunkVars, sliceVars>>

\* go writeVault(<-lastPlCh): the rendezvous with the chunker blocked in
\* lastPlCh <- pl
LastMainRecvLast(d) ==
    /\ exit = "run"
    /\ mainPc = "recvLast"
    /\ chk[d].pc = "send"
    /\ LastChannel(d, chk[d].k + 1) = "lastPlCh"
    /\ chk' = [chk EXCEPT ![d].pc = "loop", ![d].k = @ + 1]
    /\ inflight' = [inflight EXCEPT ![d] = @ + 1]
    /\ mainPc' = "select"
    /\ UNCHANGED <<fls, exit, failure, decodeErr, delN, delI, delF, rdPc, rdI, prPc, wg,
                   plBufCh, throttleCh, uploaded, rejected, deleted, clock, sendLog,
                   ticks, delRun, chunkVars, sliceVars>>

\* case <-endCh: main returns and the process ends
LastMainEnd ==
    /\ exit = "run"
    /\ mainPc = "select"
    /\ prPc = "send"
    /\ prPc' = "done"
    /\ exit' = "returned"
    /\ UNCHANGED <<fls, failure, decodeErr, mainPc, delN, delI, delF, rdPc, rdI, chk, wg,
                   plBufCh, throttleCh, inflight, uploaded, rejected, deleted, clock,
                   sendLog, ticks, delRun, chunkVars, sliceVars>>

\* wg.Wait() returns when the counter is zero; proctor then blocks in endCh <- true
LastProctorWait ==
    /\ exit = "run"
    /\ prPc = "wait"
    /\ wg = 0
    /\ prPc' = "send"
    /\ UNCHANGED <<fls, exit, failure, decodeErr, mainPc, delN, delI, delF, rdPc, rdI,
                   chk, wg, plBufCh, throttleCh, inflight, uploaded, rejected, deleted,
                   clock, sendLog, ticks, delRun, chunkVars, sliceVars>>

\* vaultRequest answers with status < 400: echo, then the select on delFCh
LastWriteVault(d) ==
    /\ exit = "run"
    /\ inflight[d] > 0
    /\ inflight' = [inflight EXCEPT ![d] = @ - 1]
    /\ uploaded' = [uploaded EXCEPT ![d] = @ + 1]
    /\ LastSelect
    /\ UNCHANGED <<fls, exit, failure, decodeErr, mainPc, delN, delI, delF, rdPc, prPc,
                   plBufCh, throttleCh, rejected, deleted, clock, sendLog, ticks,
                   chunkVars, sliceVars>>

\* vaultRequest answers with status >= 400 and a body with an error entry:
\* the messages are echoed, then the select on delFCh
LastWriteVaultRejected(d) ==
    /\ exit = "run"
    /\ inflight[d] > 0
    /\ inflight' = [inflight EXCEPT ![d] = @ - 1]
    /\ rejected' = [rejected EXCEPT ![d] = @ + 1]
    /\ LastSelect
    /\ UNCHANGED <<fls, exit, failure, decodeErr, mainPc, delN, delI, delF, rdPc, prPc,
                   plBufCh, throttleCh, uploaded, deleted, clock, sendLog, ticks,
                   chunkVars, sliceVars>>

\* vaultRequest returns an error: log.Fatalf ends the process
LastWriteVaultFail(d) ==
    /\ exit = "run"
    /\ inflight[d] > 0
    /\ exit' = "fatal"
    /\ failure' = <<"vaultRequest", d>>
    /\ UNCHANGED <<fls, decodeErr, mainPc, delN, delI, delF, rdPc, rdI, prPc, chk, wg,
                   plBufCh, throttleCh, inflight, uploaded, rejected, deleted, clock,
                   sendLog, ticks, delRun, chunkVars, sliceVars>>

\* vaultRequest answers with status >= 400 and a body whose Errors list is empty:
\* body.Errors[0] in responseStatus panics and the process ends
LastWriteVaultPanic(d) ==
    /\ exit = "run"
    /\ inflight[d] > 0
    /\ exit' = "fatal"
    /\ failure' = <<"responseStatus", d>>
    /\ UNCHANGED <<fls, decodeErr, mainPc, delN, delI, delF, rdPc, rdI, prPc, chk, wg,
                   plBufCh, throttleCh, inflight, uploaded, rejected, deleted, clock,
                   sendLog, ticks, delRun, chunkVars, sliceVars>>

\* drv.Files.Delete(f.Id).Do() succeeds: deleteFile and writeVault return
LastDeleteFile(f) ==
    /\ exit = "run"
    /\ f \in delRun
    /\ deleted' = [deleted EXCEPT ![f] = @ + 1]
    /\ delRun' = delRun \ {f}
    /\ wg' = wg - 1
    /\ UNCHANGED <<fls, exit, failure, decodeErr, mainPc, delN, delI, delF, rdPc, rdI,
                   prPc, chk, plBufCh, throttleCh, inflight, uploaded, rejected, clock,
                   sendLog, ticks, chunkVars, sliceVars>>

\* drv.Files.Delete(f.Id).Do() fails: log.Fatalf ends the process
LastDeleteFileFail(f) ==
    /\ exit = "run"
    /\ f \in delRun
    /\ exit' = "fatal"
    /\ failure' = <<"delete", f>>
    /\ UNCHANGED <<fls, decodeErr, mainPc, delN, delI, delF, rdPc, rdI, prPc, chk, wg,
                   plBufCh, throttleCh, inflight, uploaded, rejected, deleted, clock,
                   sendLog, ticks, delRun, chunkVars, sliceVars>>

\* --------------------------------------------------------------------- Next

\* every call to the Drive and to SKUVault succeeds
Healthy ==
    \/ ReadDriveList
    \/ ReadDriveSpawn
    \/ ReadDriveSendN
    \/ ReadDriveDone
    \/ \E d \in Files : ChunkDownload(d)
    \/ \E d \in Files : ChunkAdd(d)
    \/ \E d \in Files : ChunkSend(d)
    \/ \E d \in Files : ChunkSendFile(d)
    \/ \E d \in Files : ChunkDone(d)
    \/ DeleteFile
    \/ MainTick
    \/ MainRecv
    \/ MainEnd
    \/ ProctorWait
    \/ \E d \in Files : WriteVault(d)

\* a call fails, or SKUVault rejects a payload
Faulty ==
    \/ ReadDriveListErr
    \/ \E d \in Files : ChunkDownloadFail(d)
    \/ DeleteFileFail
    \/ \E d \in Files : WriteVaultRejected(d)
    \/ \E d \in Files : WriteVaultFail(d)
    \/ \E d \in Files : WriteVaultPanic(d)

Next ==
    \/ Tick
    \/ Healthy
    \/ Faulty

\* The pipeline, any listing of at most MaxFiles files, calls may fail.
Spec ==
    Init /\ [][Next]_vars

\* The pipeline when the Drive and SKUVault answer every call successfully;
\* the listing may also be one file of more payloads than plBufCh holds.
InitOK ==
    /\ \E l \in Listings \cup {<<LongDoc>>} : PipeInit(l)
    /\ ChunkIdle
    /\ SliceIdle

NextOK ==
    \/ Tick
    \/ Healthy

SpecOK ==
    InitOK /\ [][NextOK]_vars

\* The pipeline when every call succeeds and the body of a downloaded file may
\* fail to decode.
NextDecode ==
    \/ NextOK
    \/ \E d \in Files : ChunkDecodeErr(d)

SpecDecode ==
    Init /\ [][NextDecode]_vars

\* The pipeline with the ticker's clock: ticks are throttle milliseconds apart
\* and a step between two ticks happens at the instant of the earlier tick.  The runs are those of one long file in
\* which SKUVault answers no request before the ticker has fired MaxClock
\* times, so no writeVault returns and the counter does not drain.
InitTimed ==
    /\ PipeInit(<<LongDoc>>)
    /\ ChunkIdle
    /\ SliceIdle

NextTimed ==
    \/ TimedTick
    \/ ReadDriveList
    \/ ReadDriveSpawn
    \/ ReadDriveSendN
    \/ ReadDriveDone
    \/ \E d \in Files : ChunkDownload(d)
    \/ \E d \in Files : ChunkAdd(d)
    \/ \E d \in Files : ChunkSend(d)
    \/ \E d \in Files : ChunkSendFile(d)
    \/ \E d \in Files : ChunkDone(d)
    \/ DeleteFile
    \/ MainTick
    \/ MainRecv

SpecTimed ==
    InitTimed /\ [][NextTimed]_vars

\* One run of the loops of chunkToPayloads on a decoded document.
InitChunk ==
    /\ PipeInit(<<>>)
    /\ cVsd \in ChunkInputs
    /\ cG = 0
    /\ cPl = <<>>
    /\ cOut = <<>>
    /\ cPc = "loop"
    /\ cI = 0
    /\ SliceIdle

NextChunk ==
    \/ ChunkGroup
    \/ ChunkEnd

SpecChunk ==
    InitChunk /\ [][NextChunk]_vars

\* Group sizes of the documents a listing of the variant returns: those of
\* DocShapes, and one record in each of two groups.
LastDocShapes ==
    DocShapes \cup {<<1, 1>>}

LastListings ==
    SeqsUpTo(LastDocShapes, MaxFiles)

InitLast ==
    /\ \E l \in LastListings : PipeInit(l)
    /\ ChunkIdle
    /\ SliceIdle

\* every call of the variant to the Drive and to SKUVault succeeds
LastHealthy ==
    \/ LastReadDriveList
    \/ LastReadDriveCall
    \/ LastReadDriveDone
    \/ \E d \in Files : LastChunkDownload(d)
    \/ \E d \in Files : LastChunkAdd(d)
    \/ \E d \in Files : LastChunkSendBuf(d)
    \/ \E d \in Files : LastChunkSendFile(d)
    \/ LastMainTick
    \/ LastMainRecv
    \/ \E d \in Files : LastMainRecvLast(d)
    \/ LastMainEnd
    \/ LastProctorWait
    \/ \E d \in Files : LastWriteVault(d)
    \/ \E f \in Files : LastDeleteFile(f)

\* a call of the variant fails, or SKUVault rejects a payload
LastFaulty ==
    \/ LastReadDriveListErr
    \/ \E d \in Files : LastChunkDownloadFail(d)
    \/ \E d \in Files : LastWriteVaultRejected(d)
    \/ \E d \in Files : LastWriteVaultFail(d)
    \/ \E d \in Files : LastWriteVaultPanic(d)
    \/ \E f \in Files : LastDeleteFileFail(f)

NextLast ==
    \/ LastTick
    \/ LastHealthy
    \/ LastFaulty

\* The pipeline of the last-payload variant, any listing of at most MaxFiles
\* files, calls may fail.
SpecLast ==
    InitLast /\ [][NextLast]_vars

\* The steps of the variant when every call succeeds.
NextLastOK ==
    \/ LastTick
    \/ LastHealthy

\* Fair scheduling of the variant: the ticker keeps firing, a goroutine that
\* can take a step eventually takes it, a request to the Drive or to SKUVault
\* is eventually answered, and a select of main that is again and again ready
\* to receive from endCh eventually does so (Go picks among the ready cases at
\* random).
LastFairness ==
    /\ WF_vars(LastTick)
    /\ WF_vars(LastReadDriveList)
    /\ WF_vars(LastReadDriveCall)
    /\ WF_vars(LastReadDriveDone)
    /\ WF_vars(\E d \in Files : LastChunkDownload(d))
    /\ WF_vars(\E d \in Files : LastChunkAdd(d))
    /\ WF_vars(\E d \in Files : LastChunkSendBuf(d))
    /\ WF_vars(\E d \in Files : LastChunkSendFile(d))
    /\ WF_vars(LastMainTick)
    /\ WF_vars(LastMainRecv)
    /\ WF_vars(\E d \in Files : LastMainRecvLast(d))
    /\ SF_vars(LastMainEnd)
    /\ WF_vars(LastProctorWait)
    /\ WF_vars(\E d \in Files : LastWriteVault(d))
    /\ WF_vars(\E f \in Files : LastDeleteFile(f))

\* The pipeline of the variant, every call succeeds, fair scheduling.
SpecLastFair ==
    InitLast /\ [][NextLastOK]_vars /\ LastFairness

\* One run of the loops of the variant's chunkToPayloads on a decoded document:
\* pl is empty and i := 0, as in the run of main.go.
InitLastChunk ==
    InitChunk

NextLastChunk ==
    \/ LastChunkGroup
    \/ LastChunkEnd

SpecLastChunk ==
    InitLastChunk /\ [][NextLastChunk]_vars

\* One run of the loops of write2Sku on a decoded document: pyld.Items is
\* empty, with capacity 100.
InitWrite2Sku ==
    InitChunk

NextWrite2Sku ==
    \/ Write2SkuGroup
    \/ Write2SkuEnd

SpecWrite2Sku ==
    InitWrite2Sku /\ [][NextWrite2Sku]_vars

\* Group sizes given to the run whose slices are followed: none, one, a full
\* payload, one more than a full payload.
SliceSizes ==
    {0, 1, plCap, plCap + 1}

SliceInputs ==
    {MkDoc(sizes) : sizes \in SeqsUpTo(SliceSizes, MaxGroups)}

\* One run of the loops of chunkToPayloads, record by record, with the slice
\* header of pl.Items and the backing arrays it points into.
InitSlices ==
    /\ PipeInit(<<>>)
    /\ ChunkIdle
    /\ slVsd \in SliceInputs
    /\ slG = 0
    /\ slI = 0
    /\ heap = <<MakeItems>>
    /\ slPl = [arr |-> 1, len |-> 0]
    /\ slSent = <<>>
    /\ slPc = "loop"

NextSlices ==
    \/ SliceItem
    \/ SliceGroupEnd
    \/ SliceEnd

SpecSlices ==
    InitSlices /\ [][NextSlices]_vars

\* ------------------------------------------------------------------ helpers

RECURSIVE SumUpTo(_, _)
\* f[1] + ... + f[n]
SumUpTo(f, n) ==
    IF n = 0 THEN 0 ELSE f[n] + SumUpTo(f, n - 1)

\* the number of records in the body of file d
RecordsOf(d) ==
    SumUpTo(fls[d], Len(fls[d]))

\* chunkToPayloads forwards nothing for a document whose groups, at most
\* MaxGroups of them, are all empty
EmptyDocsGiveNoPayload ==
    \A sizes \in SeqsUpTo({0}, MaxGroups) :
        ChunkToPayloads(MkDoc(sizes)) = <<>>

\* payloads of file d waiting in plBufCh
InQueue(d) ==
    Cardinality({i \in DOMAIN plBufCh : plBufCh[i][1] = d})

\* payloads of file d that main has received from plBufCh
Dequeued(d) ==
    inflight[d] + uploaded[d] + rejected[d]

\* payloads main has received from plBufCh, over all files
TotalDequeued ==
    SumUpTo([d \in Files |-> Dequeued(d)], Len(fls))

\* writeVault goroutines that have not returned, over all files
TotalInflight ==
    SumUpTo(inflight, Len(fls))

\* the records of a decoded document
ItemsOf(vsd) ==
    UNION {{vsd[g][i] : i \in DOMAIN vsd[g]} : g \in DOMAIN vsd}

\* the places <<payload, index>> of a sequence of payloads
Positions(out) ==
    UNION {{<<p, i>> : i \in DOMAIN out[p]} : p \in DOMAIN out}

\* how many places of the payloads hold record x
Occurrences(x, out) ==
    Cardinality({q \in Positions(out) : out[q[1]][q[2]] = x})

\* the permutations of 1..n
Perms(n) ==
    {p \in [1..n -> 1..n] : \A i, j \in 1..n : p[i] = p[j] => i = j}

\* a sequence read from its end
Reverse(v) ==
    [i \in 1..Len(v) |-> v[Len(v) + 1 - i]]

\* Orders in which the two range loops can visit the same document: a Go map
\* is ranged over in an order that is not specified and differs from run to
\* run.  The groups in any order, the records of the groups forwards or
\* backwards.
Orders(vsd) ==
    {[g \in 1..Len(vsd) |-> IF rev THEN Reverse(vsd[p[g]]) ELSE vsd[p[g]]] :
        p \in Perms(Len(vsd)), rev \in BOOLEAN}

RECURSIVE SumLen(_)
\* the sum of the lengths of a sequence of sequences
SumLen(ss) ==
    IF ss = <<>> THEN 0 ELSE Len(Head(ss)) + SumLen(Tail(ss))

CeilDiv(n, c) ==
    (n + c - 1) \div c

\* readDrive has returned, every chunker it started has returned, plBufCh is
\* empty and no writeVault is running
Drained ==
    /\ rdPc = "done"
    /\ \A d \in Files : chk[d].pc = IF d <= rdI THEN "done" ELSE "idle"
    /\ plBufCh = <<>>
    /\ \A d \in Files : inflight[d] = 0

\* ------------------------------------------------------------------- claims

\* C1: a delete request for a file is issued only after every payload its
\* chunker forwarded has been answered by SKUVault with a status < 400.
\* (Stated as the claim; the pipeline violates it.)
C1_DeleteOnlyAfterUpload ==
    \A d \in Files :
        (deleted[d] > 0 \/ (mainPc = "delete" /\ delF = d))
            => uploaded[d] = chk[d].n

\* C2: when a chunkToPayloads run is over, every record of the document is at
\* exactly one place of the forwarded payloads.
\* (Stated as the claim; the chunking violates it.)
C2_EveryRecordInExactlyOnePayload ==
    cPc = "done" =>
        \A x \in ItemsOf(cVsd) : Occurrences(x, cOut) = 1

\* C3: a document of N records yields ceil(N / plCap) payloads, the last of
\* N mod plCap records (plCap when that is 0 and N > 0), of N records in all.
\* (Stated as the claim; the chunking violates it.)
C3_PayloadCountAndSizes ==
    cPc = "done" =>
        LET N == Cardinality(ItemsOf(cVsd))
        IN  /\ Len(cOut) = CeilDiv(N, plCap)
            /\ SumLen(cOut) = N
            /\ N > 0 =>
                 /\ Len(cOut) > 0
                 /\ Len(cOut[Len(cOut)]) =
                        IF N % plCap = 0 THEN plCap ELSE N % plCap

\* C4: no file is passed to the Drive's delete operation twice in one run.
C4_DeleteAtMostOnce ==
    \A d \in Files : deleted[d] <= 1

\* C4 witness: a run of two files in which a delete request was issued for each.
C4_Witness ==
    /\ Len(fls) >= 2
    /\ \A d \in Files : deleted[d] = 1

\* C5: any maxBatchesPerMinute + 1 consecutive starts of writeVault span a
\* minute or more, i.e. no rolling minute holds more than maxBatchesPerMinute.
\* (Stated as the claim; the ticker's buffered tick violates it.)
C5_AtMostTenSendsPerMinute ==
    \A i, j \in DOMAIN sendLog :
        j - i >= maxBatchesPerMinute
            => (sendLog[j] - sendLog[i]) * throttle >= minuteMs

C7_RunEndsWithMainReturning ==
    exit = "returned" \/ ENABLED NextOK

\* C8: with every call answered successfully the run does not come to rest
\* while a forwarded payload still waits in plBufCh.
\* (Stated as the claim; main blocked in deleteFiles violates it.)
C8_NoPayloadLeftQueued ==
    plBufCh = <<>> \/ ENABLED NextOK

\* C9: when the counter is zero, and from the moment wg.Wait has returned,
\* readDrive and every chunker have returned, plBufCh is empty and no
\* writeVault is in flight.
C9_NoPrematureDrain ==
    (wg = 0 \/ prPc # "wait") => Drained

\* C9 witness: wg.Wait has returned in a run of two files that each had a
\* payload uploaded.
C9_Witness ==
    /\ prPc = "send"
    /\ Len(fls) >= 2
    /\ \A d \in Files : uploaded[d] >= 1

\* C10: the WaitGroup counter is never negative.
C10_CounterNeverNegative ==
    wg >= 0

\* C10 witness: the counter is back at zero after readDrive, a chunker and two
\* writeVault goroutines of one file have each called wg.Done.
C10_Witness ==
    /\ wg = 0
    /\ rdPc = "done"
    /\ \E d \in Files : uploaded[d] + rejected[d] = 2

\* C11: plBufCh never holds more than plBufCap payloads, and no step taken
\* while it holds plBufCap payloads adds one: from a full channel the only
\* change is main's receive of the oldest payload, so a chunker in front of
\* plBufCh <- pl forwards nothing until then.
C11_QueueBoundedAndBlocking ==
    /\ [](Len(plBufCh) <= plBufCap)
    /\ [][Len(plBufCh) = plBufCap =>
            /\ plBufCh' \in {plBufCh, Tail(plBufCh)}
            /\ \A d \in Files : chk[d].pc = "send" => chk'[d] = chk[d]]_vars

\* C11 witness: a chunker stands in front of plBufCh <- pl with its payload
\* counted in wg while the channel holds plBufCap payloads.
C11_Witness ==
    /\ Len(plBufCh) = plBufCap
    /\ \E d \in Files : chk[d].pc = "send"

\* C12: the step in which vaultRequest returns an error for a payload of file
\* d leaves the run going and puts the payload back in plBufCh.
\* (Stated as the claim; log.Fatalf in writeVault violates it.)
C12_FailedSendIsRetried ==
    [][\A d \in Files :
          (failure' # failure /\ failure' = <<"vaultRequest", d>>) =>
              /\ exit' = "run"
              /\ InQueue(d)' = InQueue(d) + 1]_vars

\* C13: no delete request is issued for a file whose body failed to decode.
\* (Stated as the claim; chunkToPayloads drops the error of Decode and hands
\* the file to deleteFiles all the same.)
C13_MalformedNotDeleted ==
    \A d \in decodeErr :
        /\ deleted[d] = 0
        /\ ~(mainPc = "delete" /\ delF = d)

\* C14: the step in which the download of file d fails leaves the run going
\* and the chunkers of the other files where they are.
\* (Stated as the claim; log.Fatalf in chunkToPayloads violates it.)
C14_DownloadFailureSkipsOneFile ==
    [][\A d \in Files :
          (failure' # failure /\ failure' = <<"download", d>>) =>
              /\ exit' = "run"
              /\ \A e \in Files \ {d} : chk'[e] = chk[e]]_vars

\* C15: the step in which the delete request for file d fails leaves the run
\* going: deleteFiles goes on with its loop and plBufCh keeps its payloads.
\* (Stated as the claim; log.Fatalf in deleteFiles violates it.)
C15_DeleteFailureNotFatal ==
    [][\A d \in Files :
          (failure' # failure /\ failure' = <<"delete", d>>) =>
              /\ exit' = "run"
              /\ mainPc' \in {"deleteFiles", "select"}
              /\ plBufCh' = plBufCh]_vars

\* C16: the step in which SKUVault answers a payload of file d with a status
\* >= 400 leaves the run going, ends that writeVault with its wg.Done, and
\* puts nothing back in plBufCh.
\* (Stated as the claim; the panic in responseStatus violates it.)
C16_RejectedCountsAsDispatched ==
    [][\A d \in Files :
          \/ rejected'[d] > rejected[d]
          \/ (failure' # failure /\ failure' = <<"responseStatus", d>>)
          =>
              /\ exit' = "run"
              /\ wg' = wg - 1
              /\ inflight'[d] = inflight[d] - 1
              /\ plBufCh' = plBufCh]_vars

\* C17: a document without records (no group, or groups that are all empty)
\* makes chunkToPayloads forward no payload; the chunker of such a file has
\* no payload in plBufCh, in flight or answered, and its fCh <- f is taken
\* as soon as main stands at f := <-fCh in deleteFiles, whatever has or has
\* not been dispatched.
C17_EmptyDocumentHandedOver ==
    /\ EmptyDocsGiveNoPayload
    /\ \A d \in Files :
           RecordsOf(d) = 0 =>
               /\ chk[d].n = 0
               /\ chk[d].k = 0
               /\ InQueue(d) + inflight[d] + uploaded[d] + rejected[d] = 0
               /\ (exit = "run" /\ chk[d].pc = "loop" /\ mainPc = "deleteFiles")
                      => ENABLED ChunkSendFile(d)

\* C17 witness: the delete request for a file without records has been issued
\* while a payload of another file still waits in plBufCh, none dispatched.
C17_Witness ==
    \E d \in Files :
        /\ RecordsOf(d) = 0
        /\ deleted[d] = 1
        /\ plBufCh # <<>>
        /\ \A e \in Files : inflight[e] + uploaded[e] + rejected[e] = 0

\* C18: when a chunkToPayloads run is over, every run on the same document
\* that visits the groups and records in another order forwards every record
\* as many times as this run did.
\* (Stated as the claim; the payload that is forwarded and kept at the end of
\* a group makes the number depend on the order.)
C18_SameMultisetInAnyOrder ==
    cPc = "done" =>
        \A w \in Orders(cVsd) :
            \A x \in ItemsOf(cVsd) :
                Occurrences(x, ChunkToPayloads(w)) = Occurrences(x, cOut)

\* C19: when a chunkToPayloads run is over, every forwarded payload holds
\* between 1 and plCap records, and one that holds fewer than plCap is the
\* last payload of the run.
\* (Stated as the claim; the forward at the end of every group violates it.)
C19_OnePartialPayloadAtTheEnd ==
    cPc = "done" =>
        \A p \in DOMAIN cOut :
            /\ Len(cOut[p]) >= 1
            /\ Len(cOut[p]) <= plCap
            /\ Len(cOut[p]) < plCap => p = Len(cOut)

\* C20: what a reader gets from a payload sent on plBufCh is, at any later
\* moment of the chunker's run, the sequence of records the payload held when
\* it was sent.
C20_SentPayloadKeepsItsRecords ==
    \A q \in DOMAIN slSent : Read(slSent[q]) = slSent[q].was

\* C20 witness: the chunker has appended records to the backing array of a
\* payload it sent before.
C20_Witness ==
    \E q \in DOMAIN slSent :
        /\ slSent[q].arr = slPl.arr
        /\ slPl.len > slSent[q].len

\* C21: the counter is at least the number of payloads that wait in plBufCh
\* or are in flight in a writeVault: every payload main can receive or send
\* has had its wg.Add(1).
C21_CountedBeforeVisible ==
    wg >= Len(plBufCh) + TotalInflight

\* C21 witness: readDrive and the chunkers have returned, and the counter
\* stands at exactly the payloads that wait in plBufCh and are in flight.
C21_Witness ==
    /\ plBufCh # <<>>
    /\ TotalInflight >= 1
    /\ wg = Len(plBufCh) + TotalInflight

\* C22: plBufCh changes only by a payload added at its end or by main
\* receiving its oldest payload, and the payloads of a file that wait in it
\* stand in the order the chunker forwarded them, the next one to be received
\* first; payloads of different files may stand between them.
C22_QueueIsFifo ==
    /\ [](\A i \in DOMAIN plBufCh :
             plBufCh[i][2] =
                 Dequeued(plBufCh[i][1])
                   + Cardinality({j \in 1..i : plBufCh[j][1] = plBufCh[i][1]}))
    /\ [][plBufCh' # plBufCh =>
            \/ /\ plBufCh # <<>>
               /\ plBufCh' = Tail(plBufCh)
               /\ inflight' = [inflight EXCEPT ![Head(plBufCh)[1]] = @ + 1]
            \/ \E d \in Files :
                   plBufCh' = Append(plBufCh, <<d, chk[d].k + 1>>)]_vars

\* C22 witness: after main received a payload, plBufCh holds two payloads of
\* one file with a payload of another file between them.
C22_Witness ==
    /\ TotalDequeued >= 1
    /\ Len(plBufCh) >= 3
    /\ plBufCh[1][1] = plBufCh[3][1]
    /\ plBufCh[2][1] # plBufCh[1][1]

\* C23: main has received at most as many payloads from plBufCh as ticks
\* from throttleCh.
C23_OneDequeuePerTick ==
    TotalDequeued <= ticks

\* C23 witness: main has received three ticks and three payloads.
C23_Witness ==
    /\ ticks = 3
    /\ TotalDequeued = 3

\* C24: for a document of one group of N records a chunkToPayloads run
\* forwards ceil(N / plCap) payloads, all of plCap records but the last, which
\* holds N mod plCap records (plCap when that is 0), and every record is at
\* exactly one place of them.
C24_SingleGroupBatches ==
    (cPc = "done" /\ Len(cVsd) = 1) =>
        LET N    == Len(cVsd[1])
            last == IF N % plCap = 0 THEN plCap ELSE N % plCap
        IN  /\ Len(cOut) = CeilDiv(N, plCap)
            /\ \A p \in DOMAIN cOut :
                   Len(cOut[p]) = IF p < Len(cOut) THEN plCap ELSE last
            /\ \A x \in ItemsOf(cVsd) : Occurrences(x, cOut) = 1

\* C24 witness: a run on one group of two payloads and a half of records is
\* over, with payloads of plCap, plCap and half of plCap records.
C24_Witness ==
    /\ cPc = "done"
    /\ Len(cVsd) = 1
    /\ Len(cVsd[1]) = 2 * plCap + (plCap \div 2)
    /\ [p \in DOMAIN cOut |-> Len(cOut[p])] = <<plCap, plCap, plCap \div 2>>

\* C25: when main has received the end signal in a run whose listing
\* succeeded, deleteFiles(n) has returned with n the number of files listed:
\* every listed file was received from fCh and a delete request was issued
\* for it.
C25_DeletesDoneBeforeEnd ==
    (exit = "returned" /\ failure # <<"list", 0>>) =>
        /\ delN = Len(fls)
        /\ delI = delN
        /\ mainPc = "select"
        /\ \A d \in Files :
               /\ chk[d].pc = "done"
               /\ deleted[d] = 1

\* C25 witness: main has returned in a run that listed two files, both
\* deleted by then.
C25_Witness ==
    /\ exit = "returned"
    /\ failure = <<"", 0>>
    /\ Len(fls) >= 2
    /\ \A d \in Files : deleted[d] = 1

\* C26: with every call answered successfully, main waiting in <-plBufCh
\* after a tick, with plBufCh empty and no payload left to be forwarded (no
\* file listed, or every chunker past its last forward), is not where the run
\* comes to rest: a step that leads on to delFCh and endCh is possible.
\* (Stated as the claim; the blocking receive after the tick violates it.)
C26_TickOnEmptyQueueDoesNotBlock ==
    ( /\ exit = "run"
      /\ mainPc = "recv"
      /\ plBufCh = <<>>
      /\ \A d \in Files :
             /\ chk[d].pc \in {"loop", "defer", "done"}
             /\ chk[d].k = chk[d].n )
        => ENABLED NextOK

C28_ResponseStatusNeverFails ==
    \A d \in Files :
        ~(exit = "fatal" /\ failure = <<"responseStatus", d>>)

\* C29: in the last-payload variant a file is deleted by writeVault only after
\* every payload chunked from it has been uploaded: while deleteFile(f) runs,
\* no payload of f is in plBufCh, none is waiting on lastPlCh and none is in
\* flight in another writeVault goroutine.
C29_DeleteAfterEveryUpload ==
    \A f \in delRun :
        /\ InQueue(f) = 0
        /\ chk[f].pc # "send"
        /\ inflight[f] = 0

\* C30: in the last-payload variant a payload is sent on lastPlCh only if it is
\* the last payload of its file, and every other payload of the file is sent on
\* plBufCh, whatever the number of groups and their sizes: once the run of
\* chunkToPayloads is over, the payloads on lastPlCh are exactly the last one.
C30_OnlyLastPayloadOnLastPlCh ==
    cPc = "done" =>
        \A p \in DOMAIN cOut :
            IF p = Len(cOut) THEN cOut[p].ch = "lastPlCh"
                             ELSE cOut[p].ch = "plBufCh"

\* C31: in the last-payload variant, under fair scheduling, every file whose
\* chunking has finished (its chunkToPayloads stands in delFCh <- f) is
\* eventually deleted, a file with no record included, and the pass eventually
\* ends with main returning.
C31_FinishedFileDeletedAndPassEnds ==
    /\ \A f \in 1..MaxFiles :
          (f <= Len(fls) /\ chk[f].pc = "delFCh")
              ~> (f <= Len(fls) /\ deleted[f] = 1)
    /\ <>(exit = "returned")

\* C32: in the sequential revision of write2Sku every record of the downloaded
\* file is contained in some payload passed to sku.Request, whatever the
\* number of records, a number that is not a multiple of 100 or is below 100
\* included: once write2Sku has returned, no record is missing.
C32_EveryRecordRequested ==
    cPc = "done" =>
        \A x \in ItemsOf(cVsd) : Occurrences(x, cOut) >= 1

====
